---- MODULE Spec2Model ----
(***************************************************************************)
(* A model of caption-edit.py: discovery of .txt files, the interactive    *)
(* confirmation gate, the per-file batch loop of process_files, the        *)
(* destination resolution and the error log, together with the pure        *)
(* content transform edit_file_content.                                    *)
(*                                                                         *)
(* Strings are sequences of one-character strings.  Paths are sequences    *)
(* of components counted from a common top directory <<>>; a component     *)
(* ".." is kept as written by os.path.relpath / os.path.join and resolved  *)
(* only when the operating system opens or creates the path.               *)
(***************************************************************************)
EXTENDS Integers, Sequences, FiniteSets, TLC

\* ---------------------------------------------------------------- bounds
MaxLen     == 3   \* longest file content fed to the content transform
MaxPrompts == 2   \* unrecognised answers the operator may give
MaxExt     == 1   \* external filesystem changes during one run

\* ------------------------------------------------------- optional values
\* argparse yields None for an option that was not given
None == [some |-> FALSE, val |-> <<>>]

Some(v) == [some |-> TRUE, val |-> v]

\* Python truthiness of an optional string: None and "" are both falsy
Truthy(o) == o.some /\ o.val # <<>>

\* ------------------------------------------------------ content transform
\* str.replace(target, swap): every non-overlapping occurrence, scanning
\* left to right; an empty target matches before every character and at
\* the end.
RECURSIVE Replace(_, _, _)
Replace(c, t, s) ==
  IF t = <<>>
  THEN IF c = <<>> THEN s ELSE s \o <<Head(c)>> \o Replace(Tail(c), t, s)
  ELSE IF Len(c) < Len(t) THEN c
  ELSE IF SubSeq(c, 1, Len(t)) = t
       THEN s \o Replace(SubSeq(c, Len(t) + 1, Len(c)), t, s)
       ELSE <<Head(c)>> \o Replace(Tail(c), t, s)

\* a mis-ordered transform: prefix and suffix are attached first and the
\* substitution then runs over the whole text
edit_prefix_first(content, target, swap, prepend, append) ==
  LET m1 == IF Truthy(prepend) THEN prepend.val \o content ELSE content
      m2 == IF Truthy(append) THEN m1 \o append.val ELSE m1
  IN  Replace(m2, target, swap)

edit_file_content(content, target, swap, prepend, append) ==
  LET modified0 == Replace(content, target, swap)
      modified1 == IF Truthy(prepend) THEN prepend.val \o modified0
                                      ELSE modified0
      modified2 == IF Truthy(append) THEN modified1 \o append.val
                                     ELSE modified1
  IN  modified2

\* ------------------------------------------------------------------ paths
\* os.path.dirname
Dirname(p) == IF p = <<>> THEN <<>> ELSE SubSeq(p, 1, Len(p) - 1)

\* length of the longest common leading run of components
CommonLen(a, b) ==
  LET n == IF Len(a) < Len(b) THEN Len(a) ELSE Len(b)
      K == {k \in 0..n : SubSeq(a, 1, k) = SubSeq(b, 1, k)}
  IN  CHOOSE k \in K : \A j \in K : j <= k

\* os.path.relpath(path, start): one ".." for every component of start
\* below the common prefix, then the rest of path
Relpath(path, start) ==
  LET i == CommonLen(path, start)
  IN  [k \in 1..(Len(start) - i) |-> ".."] \o SubSeq(path, i + 1, Len(path))

\* os.path.join(a, b) for a relative b
Join(a, b) == a \o b

\* the path the operating system reaches: ".." steps to the parent
RECURSIVE Norm(_, _)
Norm(p, acc) ==
  IF p = <<>> THEN acc
  ELSE IF Head(p) = ".."
       THEN Norm(Tail(p), Dirname(acc))
       ELSE Norm(Tail(p), Append(acc, Head(p)))

Resolve(p) == Norm(p, <<>>)

Range(s) == {s[i] : i \in 1..Len(s)}

IsPrefix(a, b) == Len(a) <= Len(b) /\ SubSeq(b, 1, Len(a)) = a

\* ------------------------------------------------------------------ state
VARIABLES
  pc,            \* position of main(): the run's lifecycle state
  args,          \* parsed command line (parse_arguments)
  files,         \* filesystem: path of every regular file |-> its content
  dirs,          \* filesystem: paths of the directories
  log_filename,  \* main's log_filename (setup_logging), Unset before
  txt_files,     \* main's txt_files: the File Set
  preview,       \* paths printed by confirm_operation
  prompts,       \* unrecognised answers inside confirm_operation's loop
  confirmed,     \* confirm_operation has returned True
  idx,           \* process_files: files the for loop has consumed
  success_count, \* process_files: success_count
  error_count,   \* process_files: error_count
  error_log,     \* process_files: error_log
  logs,          \* log files on disk: records [name, kind, lines]
  fatal,         \* exception caught by main's except clause, or "none"
  \* history of the run's effects
  answer,        \* the operator's decisive answer: "none", "yes" or "no"
  files0,        \* the files at the start of the run
  scans,         \* calls of scan_directory
  batchCalls,    \* calls of process_files
  visited,       \* file_path of every loop iteration, in order
  outcomes,      \* per iteration "ok" or the step that raised
  resolved,      \* <<file_path, dest_path>> of every resolved file
  readPaths,     \* paths the run opened for reading
  written,       \* paths the run opened for writing
  madeDirs,      \* directories the run created
  logWrites,     \* times the run opened a log file for writing
  extCount,      \* external changes so far
  extTouched,    \* paths added or removed externally
  \* the content transform applied to drawn inputs
  tIn, tOut, tDone

runVars == <<pc, args, files, dirs, log_filename, txt_files, preview,
             prompts, confirmed, idx, success_count, error_count, error_log, logs,
             fatal, answer, files0, scans, batchCalls, visited, outcomes,
             resolved, readPaths, written, madeDirs, logWrites, extCount,
             extTouched>>

tVars == <<tIn, tOut, tDone>>

vars == <<runVars, tVars>>

\* ----------------------------------------------------------- the universe
Root == <<"r">>

SubS == <<"r", "s">>

SubT == <<"r", "t">>

\* names that end in ".txt" (the glob patterns "*.txt" and "**/*.txt")
TxtNames == {"a.txt", "b.txt"}

IsTxt(name) == name \in TxtNames

\* .txt files that may exist under the root when the run starts
CandidateFiles == {Root \o <<"a.txt">>, SubS \o <<"a.txt">>, SubT \o <<"a.txt">>}

\* a file the glob does not match
OtherFile == Root \o <<"c.log">>

\* .txt files another process may create during the run
ExternalFiles == {Root \o <<"b.txt">>}

Content0 == <<"x", "y">>

\* values of --output: not given, "", a fresh directory, a directory inside
\* the scanned tree, and a nested fresh directory
OutputChoices == {None, Some(<<>>), Some(<<"o">>), Some(SubS), Some(<<"o", "t">>)}

EmptyFiles == [p \in {} |-> <<>>]

\* the filesystems a run can start on: root missing, root a regular file,
\* root a directory holding any subset of the candidate files
InitialFilesystems ==
  {[f |-> EmptyFiles, d |-> {<<>>}],
   [f |-> [p \in {Root} |-> Content0], d |-> {<<>>}]}
  \cup
  {[f |-> [p \in S \cup {OtherFile} |-> Content0],
    d |-> {<<>>, Root, SubS, SubT}] : S \in SUBSET CandidateFiles}

ArgChoices ==
  [path : {Root}, target : {<<"x">>}, swap : {<<"z">>},
   prepend : {Some(<<"p">>)}, append : {None},
   recursive : BOOLEAN, output : OutputChoices]

\* ------------------------------------------------------------- discovery
\* what the glob matches below directory
Matches(directory, recursive) ==
  {p \in (DOMAIN files) \cup dirs :
     /\ p # <<>>
     /\ IsTxt(p[Len(p)])
     /\ IF recursive
        THEN IsPrefix(directory, p) /\ Len(p) > Len(directory)
        ELSE Dirname(p) = directory}

\* enumeration orders of pathlib's glob: a directory's own matches come
\* together and before those of its subdirectories; the order inside a
\* directory and among sibling directories is the filesystem's
GlobOrders(S) ==
  LET n == Cardinality(S) IN
  {s \in [1..n -> S] :
     /\ \A i, j \in 1..n : i # j => s[i] # s[j]
     /\ \A i, j \in 1..n : i < j =>
          ~ (Dirname(s[j]) # Dirname(s[i])
             /\ IsPrefix(Dirname(s[j]), Dirname(s[i])))
     /\ \A i, j, k \in 1..n : (i < j /\ j < k /\ Dirname(s[i]) = Dirname(s[k]))
          => Dirname(s[j]) = Dirname(s[i])}

\* a discovery without the exists()/is_dir() guard: globbing a missing
\* root raises
scan_unguarded(directory, recursive) ==
  IF directory \notin dirs THEN {[raised |-> TRUE, list |-> <<>>]}
  ELSE {[raised |-> FALSE, list |-> s] :
          s \in GlobOrders(Matches(directory, recursive))}

\* the results scan_directory may return
scan_directory(directory, recursive) ==
  IF directory \notin dirs THEN {[raised |-> FALSE, list |-> <<>>]}
  ELSE {[raised |-> FALSE, list |-> s] :
          s \in GlobOrders(Matches(directory, recursive))}

\* log_filename before setup_logging has run
Unset == -1

\* setup_logging: the one name derived from the invocation's timestamp
setup_logging == 0

\* ------------------------------------------------------------------- Init
RunInit ==
  /\ pc = "Idle"
  /\ args \in ArgChoices
  /\ \E fs \in InitialFilesystems :
       files = fs.f /\ dirs = fs.d /\ files0 = fs.f
  /\ log_filename = Unset
  /\ txt_files = <<>>
  /\ preview = <<>>
  /\ prompts = 0
  /\ confirmed = FALSE
  /\ idx = 0
  /\ success_count = 0
  /\ error_count = 0
  /\ error_log = <<>>
  /\ logs = {}
  /\ fatal = "none"
  /\ answer = "none"
  /\ scans = 0
  /\ batchCalls = 0
  /\ visited = <<>>
  /\ outcomes = <<>>
  /\ resolved = {}
  /\ readPaths = {}
  /\ written = {}
  /\ madeDirs = {}
  /\ logWrites = 0
  /\ extCount = 0
  /\ extTouched = {}

\* ------------------------------------------------------- main: the start
\* parse_arguments and setup_logging
Start ==
  /\ pc = "Idle"
  /\ log_filename' = setup_logging
  /\ pc' = "Discovering"
  /\ UNCHANGED <<args, files, dirs, txt_files, preview, prompts,
                 confirmed, idx, success_count, error_count, error_log, logs,
                 fatal, files0, scans, batchCalls, visited, outcomes,
                 resolved, readPaths, written, madeDirs, logWrites, extCount,
                 extTouched, tVars, answer>>

PreviewLimit == 10

\* the paths confirm_operation prints: files[:10]
Preview(flist) ==
  SubSeq(flist, 1, IF Len(flist) < PreviewLimit THEN Len(flist) ELSE PreviewLimit)

\* a main that asks for confirmation even when nothing was found
AfterDiscoveryNoEmptyCheck(flist) == "AwaitingConfirmation"

\* main after scan_directory: "if not txt_files: ... return"
AfterDiscovery(flist) ==
  IF flist = <<>> THEN "EmptyExit" ELSE "AwaitingConfirmation"

\* scan_directory returns; main prints "No .txt files found" or enters
\* confirm_operation, which prints the preview and blocks on input()
Discover ==
  /\ pc = "Discovering"
  /\ scans' = scans + 1
  /\ \E result \in scan_directory(args.path, args.recursive) :
       IF result.raised
       THEN /\ pc' = "Fatal"
            /\ fatal' = "scan"
            /\ UNCHANGED <<txt_files, preview>>
       ELSE /\ txt_files' = result.list
            /\ pc' = AfterDiscovery(result.list)
            /\ preview' = IF pc' = "AwaitingConfirmation"
                          THEN Preview(result.list) ELSE preview
            /\ fatal' = fatal
  /\ UNCHANGED <<args, files, dirs, log_filename, prompts, confirmed,
                 idx, success_count, error_count, error_log, logs, files0,
                 batchCalls, visited, outcomes, resolved, readPaths, written,
                 madeDirs, logWrites, extCount, extTouched, tVars, answer>>

\* the glob raises while enumerating an existing root (an OSError other
\* than PermissionError); main's except clause catches it
DiscoverRaises ==
  /\ pc = "Discovering"
  /\ args.path \in dirs
  /\ scans' = scans + 1
  /\ pc' = "Fatal"
  /\ fatal' = "scan"
  /\ UNCHANGED <<args, files, dirs, log_filename, txt_files, preview,
                 prompts, confirmed, idx, success_count, error_count,
                 error_log, logs, files0, batchCalls, visited, outcomes,
                 resolved, readPaths, written, madeDirs, logWrites, extCount,
                 extTouched, tVars, answer>>

\* "if not txt_files: print(...); return"
ExitEmpty ==
  /\ pc = "EmptyExit"
  /\ pc' = "Done"
  /\ UNCHANGED <<args, files, dirs, log_filename, txt_files, preview,
                 prompts, confirmed, idx, success_count, error_count,
                 error_log, logs, fatal, files0, scans, batchCalls, visited,
                 outcomes, resolved, readPaths, written, madeDirs, logWrites,
                 extCount, extTouched, tVars, answer>>

\* ----------------------------------------------------------- confirmation
Responses == {"y", "Y", "YES", "n", "No", "maybe", ""}

\* the accepted answers in every letter case, among those the operator types
AffirmativeTokens == {"y", "Y", "yes", "Yes", "YES"} \cap Responses

NegativeTokens == {"n", "N", "no", "No", "NO"} \cap Responses

\* str.lower on the answers the operator may type
Lower(response) ==
  CASE response = "Y" -> "y"
    [] response = "YES" -> "yes"
    [] response = "No" -> "no"
    [] OTHER -> response

\* one round of confirm_operation's while loop
Classify(response) ==
  IF Lower(response) \in {"y", "yes"} THEN "yes"
  ELSE IF Lower(response) \in {"n", "no"} THEN "no"
  ELSE "again"

\* a main that ignores the answer
AfterConfirmIgnored(proceed) == "Processing"

\* main: "if not confirm_operation(txt_files): ... return"
AfterConfirm(proceed) == IF proceed THEN "Processing" ELSE "CancelledExit"

\* the operator types an answer
Confirm ==
  /\ pc = "AwaitingConfirmation"
  /\ \E response \in Responses :
       LET c == Classify(response) IN
       IF c = "again"
       THEN /\ prompts < MaxPrompts
            /\ prompts' = prompts + 1
            /\ UNCHANGED <<pc, confirmed, batchCalls, answer>>
       ELSE /\ answer' = IF response \in AffirmativeTokens THEN "yes"
                       ELSE IF response \in NegativeTokens THEN "no"
                       ELSE "other"
            /\ confirmed' = (c = "yes")
            /\ pc' = AfterConfirm(c = "yes")
            /\ batchCalls' = IF pc' = "Processing" THEN batchCalls + 1
                                                   ELSE batchCalls
            /\ prompts' = 0
  /\ UNCHANGED <<args, files, dirs, log_filename, txt_files, preview,
                 idx, success_count, error_count, error_log, logs, fatal,
                 files0, scans, visited, outcomes, resolved, readPaths,
                 written, madeDirs, logWrites, extCount, extTouched, tVars>>

\* input() raises EOFError (standard input closed); main's except clause
\* catches it
ConfirmRaises ==
  /\ pc = "AwaitingConfirmation"
  /\ pc' = "Fatal"
  /\ fatal' = "eof"
  /\ UNCHANGED <<args, files, dirs, log_filename, txt_files, preview,
                 prompts, confirmed, idx, success_count, error_count,
                 error_log, logs, files0, scans, batchCalls, visited,
                 outcomes, resolved, readPaths, written, madeDirs, logWrites,
                 extCount, extTouched, tVars, answer>>

\* "print('Operation cancelled by user.'); return"
ExitCancelled ==
  /\ pc = "CancelledExit"
  /\ pc' = "Done"
  /\ UNCHANGED <<args, files, dirs, log_filename, txt_files, preview,
                 prompts, confirmed, idx, success_count, error_count,
                 error_log, logs, fatal, files0, scans, batchCalls, visited,
                 outcomes, resolved, readPaths, written, madeDirs, logWrites,
                 extCount, extTouched, tVars, answer>>

\* -------------------------------------------------------------- the batch
\* I/O outcomes the environment may impose on one loop iteration: no
\* fault, or the step that raises
Faults ==
  [step : {"none", "read", "transform", "mkdir", "open", "write"}]

\* a resolver that re-roots the file name even when no output was given
dest_path_always_rerooted(file_path, flist, output_dir) ==
  Join(output_dir.val, Relpath(file_path, Dirname(flist[1])))

\* process_files, "if output_dir: ... else": where the result is written
dest_path(file_path, flist, output_dir) ==
  IF Truthy(output_dir)
  THEN Join(output_dir.val, Relpath(file_path, Dirname(flist[1])))
  ELSE file_path

\* os.makedirs(p, exist_ok=True) from component k on: every missing
\* directory on the way is created; a regular file on the way raises
RECURSIVE Makedirs(_, _, _)
Makedirs(p, k, ds) ==
  IF k > Len(p) THEN [ok |-> TRUE, d |-> ds]
  ELSE LET q == Resolve(SubSeq(p, 1, k)) IN
       IF q \in DOMAIN files THEN [ok |-> FALSE, d |-> ds]
       ELSE Makedirs(p, k + 1, ds \cup {q})

\* the filesystem after content was stored at path q
Store(q, content) ==
  [x \in (DOMAIN files) \cup {q} |-> IF x = q THEN content ELSE files[x]]

\* "with open(file_path, 'r') as file: content = file.read()"
ReadStep(file_path, fault) ==
  IF fault.step = "read" \/ file_path \notin DOMAIN files
  THEN [ok |-> FALSE, content |-> <<>>]
  ELSE [ok |-> TRUE, content |-> files[file_path]]

\* the steps before any directory or file is touched: the read, then
\* edit_file_content; "ok" or the first step that raises (os.path.relpath
\* and os.path.join of two paths under one root do not raise)
BeforeWrite(rd, fault) ==
  IF ~ rd.ok THEN "read"
  ELSE IF fault.step = "transform" THEN "transform"
  ELSE "ok"

\* "os.makedirs(os.path.dirname(dest_path), exist_ok=True)"
MakedirsStep(dest, fault) ==
  IF fault.step = "mkdir" THEN [ok |-> FALSE, d |-> dirs]
  ELSE Makedirs(Dirname(dest), 1, dirs)

\* "with open(dest, 'w') as file: file.write(modified_content)" at the
\* resolved path q, the directories being ds; open() truncates, so a
\* write that raises leaves the file empty
WriteStep(q, modified, fault, ds) ==
  IF fault.step = "open" \/ q \in ds \/ Dirname(q) \notin ds
  THEN [outcome |-> "open", f |-> files, wr |-> {}]
  ELSE IF fault.step = "write"
  THEN [outcome |-> "write", f |-> Store(q, <<>>), wr |-> {q}]
  ELSE [outcome |-> "ok", f |-> Store(q, modified), wr |-> {q}]

\* one line of the error log: "Error processing {file_path}: {str(e)}"
ErrorLine(file_path, message) == [path |-> file_path, message |-> message]

\* a tally that counts a failure but keeps no record of it
TallyNoRecord(counts, file_path, outcome) ==
  IF outcome = "ok"
  THEN [counts EXCEPT !.success = @ + 1]
  ELSE [counts EXCEPT !.error = @ + 1]

\* the counters after one iteration: "success_count += 1" at the end of
\* the try block, or the except clause
Tally(counts, file_path, outcome) ==
  IF outcome = "ok"
  THEN [counts EXCEPT !.success = @ + 1]
  ELSE [counts EXCEPT !.error = @ + 1,
                      !.log = Append(@, ErrorLine(file_path, outcome))]

\* a loop that gives up at the first failing file
LoopAfterAbortOnError(outcome, i, n) ==
  IF i = n \/ outcome # "ok" THEN "Summarizing" ELSE "Processing"

\* a batch whose failure escapes to main's except clause
LoopAfterEscalating(outcome, i, n) ==
  IF outcome # "ok" THEN "Fatal"
  ELSE IF i = n THEN "Summarizing" ELSE "Processing"

\* the for loop after iteration i of n: the next file, or process_files
\* returns and main prints the summary
LoopAfter(outcome, i, n) == IF i = n THEN "Summarizing" ELSE "Processing"

\* one iteration of "for file_path in files": the try block reads,
\* transforms, resolves the destination, creates its directories and
\* writes; the first step that raises ends the block in the except clause
ProcessFile ==
  /\ pc = "Processing"
  /\ idx < Len(txt_files)
  /\ idx' = idx + 1
  /\ visited' = Append(visited, txt_files[idx + 1])
  /\ \E fault \in Faults :
     \E file_path \in {txt_files[idx + 1]} :
     \E rd \in {ReadStep(file_path, fault)} :
     \E modified \in {edit_file_content(rd.content, args.target, args.swap,
                                        args.prepend, args.append)} :
     \E dest \in {dest_path(file_path, txt_files, args.output)} :
     \E pre \in {BeforeWrite(rd, fault)} :
     \E md \in {IF pre = "ok" /\ Truthy(args.output)
                THEN MakedirsStep(dest, fault)
                ELSE [ok |-> TRUE, d |-> dirs]} :
     \E wr \in {IF pre = "ok" /\ md.ok
                THEN WriteStep(Resolve(dest), modified, fault, md.d)
                ELSE [outcome |-> IF pre = "ok" THEN "mkdir" ELSE pre,
                      f |-> files, wr |-> {}]} :
     \E t \in {Tally([success |-> success_count, error |-> error_count,
                      log |-> error_log], file_path, wr.outcome)} :
          /\ outcomes' = Append(outcomes, wr.outcome)
          /\ pc' = LoopAfter(wr.outcome, idx + 1, Len(txt_files))
          /\ fatal' = IF pc' = "Fatal" THEN wr.outcome ELSE fatal
          /\ success_count' = t.success
          /\ error_count' = t.error
          /\ error_log' = t.log
          /\ files' = wr.f
          /\ dirs' = md.d
          /\ resolved' = IF pre = "ok"
                          THEN resolved \cup {<<file_path, dest>>}
                          ELSE resolved
          /\ readPaths' = IF rd.ok THEN readPaths \cup {file_path}
                                   ELSE readPaths
          /\ written' = written \cup wr.wr
          /\ madeDirs' = madeDirs \cup (md.d \ dirs)
  /\ UNCHANGED <<args, log_filename, txt_files, preview, prompts,
                 confirmed, logs, files0, scans, batchCalls, logWrites,
                 extCount, extTouched, tVars, answer>>

\* ------------------------------------------------------ summary and logs
\* open(log_filename, 'w') and the lines written after the header
WriteLog(name, kind, lines) ==
  {l \in logs : l.name # name} \cup {[name |-> name, kind |-> kind, lines |-> lines]}

\* a summary that writes the log file on every run
NeedsLogAlways(count) == TRUE

\* "if error_count > 0:"
NeedsLog(count) == count > 0

\* the summary is printed; the error log is written if any file failed
Summarize ==
  /\ pc = "Summarizing"
  /\ IF NeedsLog(error_count)
     THEN /\ logs' = WriteLog(log_filename, "errors", error_log)
          /\ logWrites' = logWrites + 1
     ELSE UNCHANGED <<logs, logWrites>>
  /\ pc' = "Done"
  /\ UNCHANGED <<args, files, dirs, log_filename, txt_files, preview,
                 prompts, confirmed, idx, success_count, error_count,
                 error_log, fatal, files0, scans, batchCalls, visited,
                 outcomes, resolved, readPaths, written, madeDirs, extCount,
                 extTouched, tVars, answer>>

\* main's except clause: the fatal error is printed and logged
FatalHandler ==
  /\ pc = "Fatal"
  /\ logs' = WriteLog(log_filename, "fatal", <<ErrorLine(<<>>, fatal)>>)
  /\ logWrites' = logWrites + 1
  /\ pc' = "Done"
  /\ UNCHANGED <<args, files, dirs, log_filename, txt_files, preview,
                 prompts, confirmed, idx, success_count, error_count,
                 error_log, fatal, files0, scans, batchCalls, visited,
                 outcomes, resolved, readPaths, written, madeDirs, extCount,
                 extTouched, tVars, answer>>

\* ------------------------------------------------------- the environment
\* the phases in which the run still looks at the files under the root
Running == pc \in {"Discovering", "AwaitingConfirmation", "Processing"}

\* another process creates a .txt file under the root
ExtAdd ==
  /\ Running
  /\ extCount < MaxExt
  /\ \E p \in ExternalFiles :
       /\ p \notin DOMAIN files
       /\ p \notin dirs
       /\ Dirname(p) \in dirs
       /\ files' = Store(p, Content0)
       /\ extTouched' = extTouched \cup {p}
  /\ extCount' = extCount + 1
  /\ UNCHANGED <<pc, args, dirs, log_filename, txt_files, preview,
                 prompts, confirmed, idx, success_count, error_count,
                 error_log, logs, fatal, files0, scans, batchCalls, visited,
                 outcomes, resolved, readPaths, written, madeDirs, logWrites,
                 tVars, answer>>

\* another process deletes a .txt file under the root
ExtRemove ==
  /\ Running
  /\ extCount < MaxExt
  /\ \E p \in (DOMAIN files) \cap (CandidateFiles \cup ExternalFiles) :
       /\ files' = [x \in (DOMAIN files) \ {p} |-> files[x]]
       /\ extTouched' = extTouched \cup {p}
  /\ extCount' = extCount + 1
  /\ UNCHANGED <<pc, args, dirs, log_filename, txt_files, preview,
                 prompts, confirmed, idx, success_count, error_count,
                 error_log, logs, fatal, files0, scans, batchCalls, visited,
                 outcomes, resolved, readPaths, written, madeDirs, logWrites,
                 tVars, answer>>

\* ------------------------------------------------- the run specification
TIdle == [content |-> <<>>, target |-> <<"x">>, swap |-> <<>>,
          prepend |-> None, append |-> None]

Init ==
  /\ RunInit
  /\ tIn = TIdle
  /\ tOut = <<>>
  /\ tDone = FALSE

Next ==
  \/ Start
  \/ Discover
  \/ DiscoverRaises
  \/ ExitEmpty
  \/ Confirm
  \/ ConfirmRaises
  \/ ExitCancelled
  \/ ProcessFile
  \/ Summarize
  \/ FatalHandler
  \/ ExtAdd
  \/ ExtRemove

Spec == Init /\ [][Next]_vars

\* main runs to its end once started: its steps after the confirmation
\* are sequential code that no input can block
FairSpec ==
  /\ Spec
  /\ WF_vars(ProcessFile)
  /\ WF_vars(Summarize)
  /\ WF_vars(FatalHandler)

\* ------------------------------------------- the transform specification
Chars == {"x", "y"}

StrsUpTo(n) == UNION {[1..k -> Chars] : k \in 0..n}

Optionals(S) == {None} \cup {Some(v) : v \in S}

TInputs ==
  [content : StrsUpTo(MaxLen), target : StrsUpTo(2), swap : StrsUpTo(2),
   prepend : Optionals(StrsUpTo(1)), append : Optionals(StrsUpTo(1))]

TInit ==
  /\ RunInit
  /\ args = [path |-> Root, target |-> <<"x">>, swap |-> <<"z">>,
             prepend |-> Some(<<"p">>), append |-> None,
             recursive |-> FALSE, output |-> None]
  /\ files = EmptyFiles
  /\ tIn \in TInputs
  /\ tOut = <<>>
  /\ tDone = FALSE

\* edit_file_content is called on the drawn input
ApplyTransform ==
  /\ ~ tDone
  /\ tOut' = edit_file_content(tIn.content, tIn.target, tIn.swap,
                               tIn.prepend, tIn.append)
  /\ tDone' = TRUE
  /\ UNCHANGED <<tIn, runVars>>

TNext == ApplyTransform

TSpec == TInit /\ [][TNext]_vars

\* ================================================================ claims
\* paths the run may be blamed for: everything no other process touched
Unchanged(p) ==
  /\ (p \in DOMAIN files) = (p \in DOMAIN files0)
  /\ p \in DOMAIN files => files[p] = files0[p]

AllPaths == (DOMAIN files) \cup (DOMAIN files0)

\* the visited files whose iteration raised, in order
RECURSIVE FailedPaths(_)
FailedPaths(i) ==
  IF i = 0 THEN <<>>
  ELSE IF outcomes[i] # "ok" THEN Append(FailedPaths(i - 1), visited[i])
       ELSE FailedPaths(i - 1)

BatchReturned == pc = "Summarizing" \/ (pc = "Done" /\ batchCalls > 0)

\* C1: whatever files fail at read, at the transform, or at destination
\* resolution with its directory creation and write, the batch visits
\* every file, never aborts, and returns succeeded + failed = number of
\* files with exactly one failure record per failed file, in file-set order
\* and naming that file, and none for a file that succeeded.
C1_FaultIsolation ==
  /\ batchCalls > 0 =>
       /\ fatal = "none"
       /\ success_count + error_count = Len(visited)
       /\ Len(error_log) = error_count
       /\ [k \in 1..Len(error_log) |-> error_log[k].path]
            = FailedPaths(Len(outcomes))
  /\ BatchReturned =>
       /\ visited = txt_files
       /\ success_count + error_count = Len(txt_files)

\* three files, the second unreadable: succeeded = 2, failed = 1
C1_Witness ==
  /\ pc = "Done"
  /\ Len(txt_files) = 3
  /\ outcomes = <<"ok", "read", "ok">>
  /\ success_count = 2
  /\ error_count = 1
  /\ error_log = <<ErrorLine(txt_files[2], "read")>>

\* C2: until confirm_operation has returned true no file is read or
\* written, no directory is created and the batch is not invoked; it
\* returns true only on an affirmative answer, so after a refusal or any
\* number of unrecognised answers every file holds its initial content.
C2_ConfirmationGate ==
  /\ confirmed => answer = "yes"
  /\ ~ confirmed =>
       /\ readPaths = {}
       /\ written = {}
       /\ madeDirs = {}
       /\ batchCalls = 0
       /\ visited = <<>>
       /\ \A p \in AllPaths \ extTouched : Unchanged(p)

\* a cancelled run over several files, at its end
C2_Witness ==
  /\ pc = "Done"
  /\ answer = "no"
  /\ Len(txt_files) >= 2
  /\ extTouched = {}

\* the first occurrence of t in c, or 0
FirstOcc(c, t) ==
  LET O == {i \in 1..(Len(c) - Len(t) + 1) : SubSeq(c, i, i + Len(t) - 1) = t}
  IN  IF O = {} THEN 0 ELSE CHOOSE i \in O : \A j \in O : i <= j

\* c cut at every non-overlapping occurrence of t, left to right
RECURSIVE Split(_, _)
Split(c, t) ==
  LET i == FirstOcc(c, t) IN
  IF i = 0 THEN <<c>>
  ELSE <<SubSeq(c, 1, i - 1)>> \o Split(SubSeq(c, i + Len(t), Len(c)), t)

\* the pieces joined by s
RECURSIVE Joined(_, _)
Joined(pieces, s) ==
  IF Len(pieces) = 1 THEN pieces[1]
  ELSE pieces[1] \o s \o Joined(Tail(pieces), s)

Substitute(c, t, s) == Joined(Split(c, t), s)

PrefixApplied(o, c) == IF o.some THEN o.val \o c ELSE c

SuffixApplied(o, c) == IF o.some THEN c \o o.val ELSE c

\* C3: for a non-empty target the transform returns the suffix attached to
\* the prefix attached to the substitution of the content, the substitution
\* replacing every non-overlapping occurrence left to right; prefix and
\* suffix are not substituted, and an absent or empty one changes nothing.
C3_TransformOrder ==
  (tDone /\ tIn.target # <<>>) =>
    /\ tOut = SuffixApplied(tIn.append,
                PrefixApplied(tIn.prepend,
                  Substitute(tIn.content, tIn.target, tIn.swap)))
    /\ ~ Truthy(tIn.prepend) /\ ~ Truthy(tIn.append)
         => tOut = Substitute(tIn.content, tIn.target, tIn.swap)

\* a prefix and a suffix that contain the target, around content with two
\* occurrences of it
C3_Witness ==
  /\ tDone
  /\ tIn = [content |-> <<"x", "y", "x">>, target |-> <<"x">>,
            swap |-> <<"y", "y">>, prepend |-> Some(<<"x">>),
            append |-> Some(<<"x">>)]
  /\ tOut = <<"x", "y", "y", "y", "y", "y", "x">>

\* the lifecycle's transitions; Fatal is entered from a step outside the
\* batch loop
Lifecycle ==
  {<<"Idle", "Discovering">>,
   <<"Discovering", "EmptyExit">>,
   <<"Discovering", "AwaitingConfirmation">>,
   <<"AwaitingConfirmation", "CancelledExit">>,
   <<"AwaitingConfirmation", "Processing">>,
   <<"Processing", "Summarizing">>,
   <<"Summarizing", "Done">>,
   <<"EmptyExit", "Done">>,
   <<"CancelledExit", "Done">>,
   <<"Fatal", "Done">>}
  \cup {<<q, "Fatal">> :
          q \in {"Discovering", "AwaitingConfirmation", "Summarizing"}}

\* C4: every run follows Idle -> Discovering -> (Empty-Exit |
\* AwaitingConfirmation) -> (Cancelled-Exit | Processing) -> Summarizing ->
\* Done or moves to Fatal -> Done from outside the batch loop; Processing
\* is entered only with a non-empty file set and after the confirmation,
\* Summarizing only after Processing.
C4_Lifecycle ==
  /\ [][pc' # pc => <<pc, pc'>> \in Lifecycle]_vars
  /\ [](pc = "Processing" => txt_files # <<>> /\ confirmed)
  /\ [](pc = "Summarizing" => batchCalls = 1 /\ visited # <<>>)

\* a run that went through Processing and stands in Summarizing
C4_Witness ==
  /\ pc = "Summarizing"
  /\ confirmed
  /\ Len(visited) = 2

\* C5: once the operator has confirmed, the run reaches Done having
\* attempted every discovered file exactly once, in file-set order,
\* whatever files fail; no failing file leads to Fatal or keeps the
\* remaining files from being attempted.
C5_Completion ==
  /\ [](IsPrefix(visited, txt_files) /\ idx = Len(visited))
  /\ [](confirmed => pc # "Fatal")
  /\ confirmed ~> (pc = "Done" /\ visited = txt_files /\ fatal = "none")

\* a confirmed run of three files that ended though the first two failed
C5_Witness ==
  /\ pc = "Done"
  /\ confirmed
  /\ Len(txt_files) = 3
  /\ visited = txt_files
  /\ outcomes[1] # "ok"
  /\ outcomes[2] # "ok"
  /\ outcomes[3] = "ok"

\* C6: at the end of a run a log file exists exactly if a file failed or a
\* fatal error occurred; its name was fixed before Discovery and never
\* changes, at most one log file is ever written, and after a run with
\* failing files it holds one line per failure record.
C6_LogMaterialisation ==
  /\ [][log_filename # Unset => log_filename' = log_filename]_vars
  /\ [](pc # "Idle" => log_filename # Unset)
  /\ [](pc # "Done" => logs = {})
  /\ [](pc = "Done" => (logs # {} <=> (error_count > 0 \/ fatal # "none")))
  /\ [](logWrites <= 1 /\ Cardinality(logs) <= 1)
  /\ [](\A l \in logs :
          /\ l.name = log_filename
          /\ fatal = "none" =>
               /\ l.kind = "errors"
               /\ l.lines = error_log
               /\ Len(l.lines) = Cardinality({i \in 1..Len(outcomes) :
                                                outcomes[i] # "ok"}))

\* the log of a run in which two of three files failed
C6_Witness ==
  /\ pc = "Done"
  /\ error_count = 2
  /\ success_count = 1
  /\ \E l \in logs : Len(l.lines) = 2

\* C7: Discovery runs once and its sequence is used unchanged for the
\* preview, the anchor and the batch; a file that appears after Discovery,
\* also one the run itself writes, is never processed, and a discovered
\* file that is gone when the batch reaches it is a failure of that file
\* only, never a fatal abort.
C7_FileSetFixed ==
  /\ [](scans <= 1 /\ (pc \notin {"Idle", "Discovering"} => scans = 1))
  /\ [][pc \notin {"Idle", "Discovering"} => txt_files' = txt_files]_vars
  /\ [](pc = "AwaitingConfirmation" => preview = Preview(txt_files))
  /\ [](\A t \in resolved :
          Truthy(args.output) =>
            t[2] = args.output.val \o Relpath(t[1], Dirname(txt_files[1])))
  /\ [](IsPrefix(visited, txt_files))
  /\ [](\A p \in (extTouched \cup written) \ Range(txt_files) :
          p \notin Range(visited) /\ p \notin readPaths)
  /\ [][(pc = "Processing" /\ idx' = idx + 1
           /\ txt_files[idx + 1] \notin DOMAIN files)
        => /\ pc' \in {"Processing", "Summarizing"}
           /\ fatal' = "none"
           /\ error_count' = error_count + 1
           /\ success_count' = success_count
           /\ error_log' = Append(error_log,
                                  ErrorLine(txt_files[idx + 1], "read"))
           /\ files' = files]_vars

\* a run that met a removed file, wrote a new .txt file into the scanned
\* tree and ended
C7_Witness ==
  /\ pc = "Done"
  /\ \E i \in 1..Len(visited) :
       visited[i] \in extTouched /\ outcomes[i] = "read"
  /\ \E p \in written : IsPrefix(args.path, p) /\ p \notin Range(txt_files)

\* C8: when the root is missing or not a directory scan_directory returns
\* an empty list without raising and the run ends quietly: no prompt, no
\* file read or written, no Fatal state and no log file.
C8_DiscoveryFault ==
  (args.path \notin dirs /\ pc \notin {"Idle", "Discovering"}) =>
    /\ txt_files = <<>>
    /\ pc \in {"EmptyExit", "Done"}
    /\ fatal = "none"
    /\ preview = <<>>
    /\ answer = "none"
    /\ ~ confirmed
    /\ readPaths = {}
    /\ written = {}
    /\ madeDirs = {}
    /\ logs = {}
    /\ logWrites = 0

\* the end of a run whose root is a regular file
C8_Witness ==
  /\ pc = "Done"
  /\ args.path \in DOMAIN files
  /\ scans = 1

C10_OutputContainment ==
  Truthy(args.output) =>
    /\ \A t \in resolved : IsPrefix(args.output.val, Resolve(t[2]))
    /\ \A t, u \in resolved : t[1] # u[1] => Resolve(t[2]) # Resolve(u[2])
====
